---- MODULE Spec2Model ----
(***************************************************************************)
(* Model of the context-aware narration pass of src/ai_narrator.py:        *)
(* AITeacherNarrator.narrate_slides and _build_context_aware_prompt.       *)
(* Strings are sequences of one-character strings.  Durations are in       *)
(* tenths of a second and temperatures in tenths.                          *)
(***************************************************************************)
EXTENDS Integers, Sequences, FiniteSets, TLC

VARIABLES
    SDK_VERSION,            \* "NEW" or "OLD": which Gemini SDK the import found
    temperature,            \* self.temperature (constructor argument)
    style,                  \* self.style (constructor argument)
    conversation_history,   \* self.conversation_history
    slides_data,            \* the list of slide dicts of the running pass
    progress_callback,      \* TRUE iff the caller supplied a callback
    pc,                     \* position in narrate_slides
    i,                      \* loop variable of `for i, slide in enumerate(..., 1)`
    attempt,                \* loop variable of `for attempt in (1, 2)`
    prompt,                 \* the prompt built for slide i
    calls,                  \* per slide: generation calls issued in this pass
    callTemp,               \* temperature argument of the latest generation call
    lastCall,               \* outcome of the latest generation call of the pass
    sleeps,                 \* time.sleep durations since the latest generation call
    outcome,                \* per slide: "pending", "passthrough", "success", "fallback"
    writes,                 \* per slide: assignments to slide["ai_narration"] in this pass
    notified,               \* the i/total positions passed to progress_callback, in order
    laterPass               \* TRUE once narrate_slides has been entered more than once

vars == << SDK_VERSION, temperature, style, conversation_history, slides_data,
           progress_callback, pc, i, attempt, prompt, calls, callTemp, lastCall,
           sleeps, outcome, writes, notified, laterPass >>

-----------------------------------------------------------------------------
(* Bounds *)

MaxSlides == 3       \* longest deck, all backend outcomes
MaxLongSlides == 5   \* longest deck, the outcomes of LongDeckOutcomes

-----------------------------------------------------------------------------
(* Program constants *)

MinTextLen == 5          \* `if len(text) < 5`
MaxAttempts_Three == 2 + 1   \* a third attempt
MaxAttempts == 2         \* `for attempt in (1, 2)`
BodyContextSlides == 2   \* `self.conversation_history[-2:]`
BodyContextChars == 150  \* `prev_slide['narration'][-150:]`
CloserContextChars == 100 \* `last_slide['narration'][:100]`
RateLimitSleep == 50     \* `time.sleep(5)`
PacingSleep == 8         \* `time.sleep(0.8)`
DefaultTemperature == 7  \* `temperature: float = 0.7`

-----------------------------------------------------------------------------
(* Python string and list primitives *)

Min(a, b) == IF a < b THEN a ELSE b
Max(a, b) == IF a > b THEN a ELSE b

IsSpace(c) == c \in {" ", "\n", "\t"}

RECURSIVE lstrip(_)
lstrip(s) == IF s # << >> /\ IsSpace(Head(s)) THEN lstrip(Tail(s)) ELSE s

RECURSIVE rstrip(_)
rstrip(s) == IF s # << >> /\ IsSpace(s[Len(s)])
             THEN rstrip(SubSeq(s, 1, Len(s) - 1)) ELSE s

\* str.strip()
strip(s) == rstrip(lstrip(s))

\* s[-n:]
LastN(s, n) == SubSeq(s, Max(1, Len(s) - n + 1), Len(s))

\* s[:n]
FirstN(s, n) == SubSeq(s, 1, Min(n, Len(s)))

\* len(s.split()): the number of maximal runs of non-whitespace characters
WordCount(s) ==
    Cardinality({ k \in 1..Len(s) :
                    /\ ~IsSpace(s[k])
                    /\ (k = 1 \/ IsSpace(s[k - 1])) })

\* `token in error_msg`, the message being a sequence of tokens
Contains(msg, token) == \E k \in 1..Len(msg) : msg[k] = token

-----------------------------------------------------------------------------
(* Style registry *)

NARRATION_STYLES ==
    [ professional |-> [ name |-> "Professional Lecturer", temperature |-> 5,
                         prompt_style |-> "formal and professional" ],
      engaging     |-> [ name |-> "Engaging Teacher", temperature |-> 7,
                         prompt_style |-> "conversational and engaging" ],
      enthusiastic |-> [ name |-> "Enthusiastic Presenter", temperature |-> 8,
                         prompt_style |-> "highly energetic and passionate" ],
      casual       |-> [ name |-> "Casual Explainer", temperature |-> 7,
                         prompt_style |-> "relaxed and friendly" ],
      storyteller  |-> [ name |-> "Story Teller", temperature |-> 8,
                         prompt_style |-> "narrative and story-driven" ] ]

_get_style_config(style_key) ==
    IF style_key \in DOMAIN NARRATION_STYLES
    THEN NARRATION_STYLES[style_key]
    ELSE NARRATION_STYLES["engaging"]

-----------------------------------------------------------------------------
(* Inputs *)

\* Slide texts: trivial with surrounding whitespace (raw length 6, trimmed
\* length 4) and non-trivial with trailing whitespace (trimmed length 5).
TrivialText == << " ", "a", "b", "c", "d", " " >>
HelloText   == << "h", "e", "l", "l", "o", " " >>
SlideTexts  == { TrivialText, HelloText }

Digits == << "0", "1", "2", "3", "4", "5", "6", "7", "8", "9" >>

\* Backend response texts.
ShortResp == << " ", "o", "k", "\n" >>
LongResp  == << " " >> \o [ k \in 1..152 |-> Digits[(k % 10) + 1] ] \o << "\n" >>
BlankResp == << " ", "\n" >>

TextOutcome(t) == [ kind |-> "text", text |-> t ]
NoneOutcome    == [ kind |-> "none" ]
ErrorOutcome(m) == [ kind |-> "error", msg |-> m ]

\* Backend outcomes: a response whose .text is a string or None, or an error
\* whose str() is a sequence of tokens.
BackendOutcomes ==
    { TextOutcome(ShortResp), TextOutcome(LongResp), TextOutcome(BlankResp),
      NoneOutcome,
      ErrorOutcome(<< "403", "Forbidden" >>),
      ErrorOutcome(<< "PERMISSION_DENIED" >>),
      ErrorOutcome(<< "429", "RESOURCE_EXHAUSTED" >>),
      ErrorOutcome(<< "429", "quota", "403" >>),
      ErrorOutcome(<< "500", "Internal" >>) }

\* The outcomes drawn for the longer decks
LongDeckOutcomes ==
    { TextOutcome(LongResp), NoneOutcome, ErrorOutcome(<< "PERMISSION_DENIED" >>) }

StyleKeys    == { "professional", "unknown" }
Temperatures == { DefaultTemperature, 2 }
NoTemperature == -1      \* the call passes no temperature argument

NoCall == [ slide |-> 0, attempt |-> 0, result |-> [ kind |-> "nocall" ] ]
NoPrompt == [ template |-> "none" ]

Decks(maxLen) ==
    UNION { [ 1..n -> { [ text |-> t ] : t \in SlideTexts } ] : n \in 0..maxLen }

-----------------------------------------------------------------------------
(* Prompt builder *)

\* CloserContext with the tail of the narration instead of its head
CloserContext_Tail ==
    IF conversation_history # << >>
    THEN << [ excerpt |-> LastN(conversation_history[Len(conversation_history)].narration,
                                100) ] >>
    ELSE << >>

\* The context section of the closer template
CloserContext ==
    IF conversation_history # << >>
    THEN << [ excerpt |-> FirstN(conversation_history[Len(conversation_history)].narration,
                                 CloserContextChars) ] >>
    ELSE << >>

\* BodyContext over the whole history instead of its last 2 entries
BodyContext_WholeHistory ==
    [ k \in 1..Len(conversation_history) |->
        [ slide_number |-> conversation_history[k].slide_number,
          excerpt      |-> LastN(conversation_history[k].narration, 150) ] ]

\* The context section of the body template
BodyContext ==
    LET recent_context == LastN(conversation_history, BodyContextSlides)
    IN  [ k \in 1..Len(recent_context) |->
            [ slide_number |-> recent_context[k].slide_number,
              excerpt      |-> LastN(recent_context[k].narration, BodyContextChars) ] ]

\* Template with the closer test ahead of the opener test
Template_CloserFirst(slide_number, total_slides) ==
    IF slide_number = total_slides THEN "closer"
    ELSE IF slide_number = 1 THEN "opener"
    ELSE "body"

\* The template the position selects
Template(slide_number, total_slides) ==
    IF slide_number = 1 THEN "opener"
    ELSE IF slide_number = total_slides THEN "closer"
    ELSE "body"

_build_context_aware_prompt(slide_text, slide_number, total_slides, is_title) ==
    LET style_desc == _get_style_config(style).prompt_style
        template   == Template(slide_number, total_slides)
    IN  [ template     |-> template,
          slide_number |-> slide_number,
          total_slides |-> total_slides,
          slide_text   |-> slide_text,
          context      |-> CASE template = "opener" -> << >>
                             [] template = "closer" -> CloserContext
                             [] OTHER               -> BodyContext,
          tone         |-> style_desc ]

-----------------------------------------------------------------------------
(* The generation loop *)

total == Len(slides_data)

\* text(j) without the .strip()
text_NoStrip(j) == slides_data[j].text

\* `text = slide.get("text", "").strip()` for the slide at position j
text(j) == strip(slides_data[j].text)

IsTrivial(t) == Len(t) < MinTextLen

\* `if narration and narration.strip()`
IsSuccess(o) == o.kind = "text" /\ o.text # << >> /\ strip(o.text) # << >>

\* The branch of the except clause the message selects
ErrorClass(error_msg) ==
    IF Contains(error_msg, "403") \/ Contains(error_msg, "PERMISSION_DENIED")
    THEN "auth"
    ELSE IF Contains(error_msg, "429") \/ Contains(error_msg, "RESOURCE_EXHAUSTED")
    THEN "rate"
    ELSE "other"

\* Caught for a handler that catches only the two recognised error classes
Caught_OnlyClassified(o) ==
    /\ o.kind = "error"
    /\ \E k \in 1..Len(o.msg) :
          o.msg[k] \in { "403", "PERMISSION_DENIED", "429", "RESOURCE_EXHAUSTED" }

\* `except Exception as e` catches every backend error
Caught(o) == o.kind = "error"

\* Breaks without the `break` of the success branch
Breaks_NoSuccessBreak(o) ==
    o.kind = "error" /\ (Contains(o.msg, "403") \/ Contains(o.msg, "PERMISSION_DENIED"))

\* Breaks without the `break` of the authorization branch
Breaks_NoAuthBreak(o) == o.kind = "text" /\ o.text # << >> /\ strip(o.text) # << >>

\* The attempt leaves the retry loop through `break`
Breaks(o) ==
    \/ IsSuccess(o)
    \/ o.kind = "error" /\ ErrorClass(o.msg) = "auth"

\* FallsBack without the `if attempt == 2` assignment of the generic-error branch
FallsBack_NotOnOtherError(o, att) ==
    /\ ~(o.kind = "text" /\ o.text # << >> /\ strip(o.text) # << >>)
    /\ \/ o.kind = "error" /\ (Contains(o.msg, "403") \/ Contains(o.msg, "PERMISSION_DENIED"))
       \/ /\ att = 2
          /\ ~(o.kind = "error" /\ ~Contains(o.msg, "429")
                                /\ ~Contains(o.msg, "RESOURCE_EXHAUSTED"))

\* The attempt assigns slide["ai_narration"] = text
FallsBack(o, att) ==
    /\ ~IsSuccess(o)
    /\ \/ o.kind = "error" /\ ErrorClass(o.msg) = "auth"
       \/ att = MaxAttempts

\* SleepsOf without the time.sleep(5) of the rate-limit branch
SleepsOf_NoBackoff(o) ==
    IF o.kind = "text" /\ o.text # << >> /\ strip(o.text) # << >> THEN << >>
    ELSE IF o.kind = "error" /\ (Contains(o.msg, "403") \/ Contains(o.msg, "PERMISSION_DENIED"))
    THEN << >>
    ELSE << 8 >>

\* The time.sleep calls of one loop iteration, in order
SleepsOf(o) ==
    (IF o.kind = "error" /\ ErrorClass(o.msg) = "rate" THEN << RateLimitSleep >> ELSE << >>)
    \o (IF Breaks(o) THEN << >> ELSE << PacingSleep >>)

\* The temperature the generate_content call is given
CallTemperature == IF SDK_VERSION = "NEW" THEN temperature ELSE NoTemperature

\* The entry appended to the conversation history on success
HistoryEntry(j, narration) ==
    [ slide_number |-> j, text |-> text(j), narration |-> narration ]

\* ResetHistory without the reset
ResetHistory_Keep == conversation_history

\* ProgressMessage with the 0-based index of the slide
ProgressMessage_ZeroBased(n, total_slides) == [ i |-> n - 1, total |-> total_slides ]

\* The "i/total" position the progress message carries
ProgressMessage(n, total_slides) == [ i |-> n, total |-> total_slides ]

\* The history as narrate_slides resets it on entry
ResetHistory == << >>

SetNarration(slide, value) == [ text |-> slide.text, ai_narration |-> value ]

HasNarration(slide) == "ai_narration" \in DOMAIN slide

Init ==
    /\ SDK_VERSION \in { "NEW", "OLD" }
    /\ temperature \in Temperatures
    /\ style \in StyleKeys
    /\ conversation_history = << >>
    /\ slides_data = << >>
    /\ progress_callback = FALSE
    /\ pc = "idle"
    /\ i = 0
    /\ attempt = 0
    /\ prompt = NoPrompt
    /\ calls = << >>
    /\ callTemp = NoTemperature
    /\ lastCall = NoCall
    /\ sleeps = << >>
    /\ outcome = << >>
    /\ writes = << >>
    /\ notified = << >>
    /\ laterPass = FALSE

\* Entry of narrate_slides: total, history reset, loop start
NarrateSlides(deck, callback) ==
    /\ pc \in { "idle", "done" }
    /\ slides_data' = deck
    /\ progress_callback' = callback
    /\ conversation_history' = ResetHistory
    /\ pc' = "slide"
    /\ i' = 1
    /\ attempt' = 0
    /\ prompt' = NoPrompt
    /\ calls' = [ j \in 1..Len(deck) |-> 0 ]
    /\ lastCall' = NoCall
    /\ sleeps' = << >>
    /\ outcome' = [ j \in 1..Len(deck) |-> "pending" ]
    /\ writes' = [ j \in 1..Len(deck) |-> 0 ]
    /\ notified' = << >>
    /\ laterPass' = (pc = "done")
    /\ UNCHANGED << SDK_VERSION, temperature, style, callTemp >>

\* Loop iteration for a slide whose trimmed text is shorter than 5 characters
Passthrough ==
    /\ pc = "slide"
    /\ i <= total
    /\ IsTrivial(text(i))
    /\ slides_data' = [ slides_data EXCEPT ![i] = SetNarration(@, text(i)) ]
    /\ writes' = [ writes EXCEPT ![i] = @ + 1 ]
    /\ outcome' = [ outcome EXCEPT ![i] = "passthrough" ]
    /\ i' = i + 1
    /\ UNCHANGED << SDK_VERSION, temperature, style, conversation_history,
                    progress_callback, pc, attempt, prompt, calls, callTemp,
                    lastCall, sleeps, notified, laterPass >>

\* Loop iteration head for any other slide: callback, prompt, first attempt
BeginSlide ==
    /\ pc = "slide"
    /\ i <= total
    /\ ~IsTrivial(text(i))
    /\ notified' = IF progress_callback
                    THEN Append(notified, ProgressMessage(i, total))
                    ELSE notified
    /\ LET is_title == (i = 1) \/ (WordCount(text(i)) < 15)
       IN  prompt' = _build_context_aware_prompt(text(i), i, total, is_title)
    /\ attempt' = 1
    /\ pc' = "attempt"
    /\ UNCHANGED << SDK_VERSION, temperature, style, conversation_history,
                    slides_data, progress_callback, i, calls, callTemp, lastCall,
                    sleeps, outcome, writes, laterPass >>

\* One iteration of the retry loop: the generation call and its handling
Attempt(o) ==
    /\ pc = "attempt"
    /\ calls' = [ calls EXCEPT ![i] = @ + 1 ]
    /\ callTemp' = CallTemperature
    /\ lastCall' = [ slide |-> i, attempt |-> attempt, result |-> o ]
    /\ sleeps' = SleepsOf(o)
    /\ IF o.kind = "error" /\ ~Caught(o)
       THEN /\ pc' = "raised"
            /\ UNCHANGED << slides_data, conversation_history, outcome, writes,
                            i, attempt >>
       ELSE /\ IF IsSuccess(o)
               THEN /\ slides_data' = [ slides_data EXCEPT ![i] = SetNarration(@, strip(o.text)) ]
                    /\ conversation_history' =
                          Append(conversation_history, HistoryEntry(i, strip(o.text)))
                    /\ writes' = [ writes EXCEPT ![i] = @ + 1 ]
                    /\ outcome' = [ outcome EXCEPT ![i] = "success" ]
               ELSE IF FallsBack(o, attempt)
               THEN /\ slides_data' = [ slides_data EXCEPT ![i] = SetNarration(@, text(i)) ]
                    /\ writes' = [ writes EXCEPT ![i] = @ + 1 ]
                    /\ outcome' = [ outcome EXCEPT ![i] = "fallback" ]
                    /\ UNCHANGED conversation_history
               ELSE UNCHANGED << slides_data, conversation_history, outcome, writes >>
            /\ IF Breaks(o) \/ attempt = MaxAttempts
               THEN pc' = "slide" /\ i' = i + 1 /\ UNCHANGED attempt
               ELSE pc' = "attempt" /\ attempt' = attempt + 1 /\ UNCHANGED i
    /\ UNCHANGED << SDK_VERSION, temperature, style, progress_callback, prompt,
                    notified, laterPass >>

\* The loop is exhausted: `return slides_data`
Return ==
    /\ pc = "slide"
    /\ i > total
    /\ pc' = "done"
    /\ UNCHANGED << SDK_VERSION, temperature, style, conversation_history,
                    slides_data, progress_callback, i, attempt, prompt, calls,
                    callTemp, lastCall, sleeps, outcome, writes, notified, laterPass >>

Next ==
    \/ \E deck \in Decks(MaxSlides), callback \in BOOLEAN : NarrateSlides(deck, callback)
    \/ Passthrough
    \/ BeginSlide
    \/ \E o \in BackendOutcomes : Attempt(o)
    \/ Return

Spec == Init /\ [][Next]_vars

\* Longer decks under a narrower backend and the default construction
InitLong ==
    /\ Init
    /\ SDK_VERSION = "NEW"
    /\ temperature = DefaultTemperature
    /\ style = "professional"

NextLong ==
    \/ \E deck \in Decks(MaxLongSlides), callback \in BOOLEAN : NarrateSlides(deck, callback)
    \/ Passthrough
    \/ BeginSlide
    \/ \E o \in LongDeckOutcomes : Attempt(o)
    \/ Return

SpecLong == InitLong /\ [][NextLong]_vars

-----------------------------------------------------------------------------
(* The prompt builder on its own: any history, any style, any position *)

NarrationTexts == { strip(ShortResp), strip(LongResp) }

PromptHistories ==
    UNION { [ 1..n -> NarrationTexts ] : n \in 0..3 }

InitPrompt ==
    /\ SDK_VERSION = "NEW"
    /\ temperature = DefaultTemperature
    /\ style \in (DOMAIN NARRATION_STYLES) \cup { "unknown" }
    /\ \E h \in PromptHistories :
          conversation_history =
              [ k \in 1..Len(h) |-> [ slide_number |-> k, text |-> strip(HelloText),
                                      narration |-> h[k] ] ]
    /\ slides_data = << >>
    /\ progress_callback = FALSE
    /\ pc = "prompt"
    /\ i = 0
    /\ attempt = 0
    /\ prompt = NoPrompt
    /\ calls = << >>
    /\ callTemp = NoTemperature
    /\ lastCall = NoCall
    /\ sleeps = << >>
    /\ outcome = << >>
    /\ writes = << >>
    /\ notified = << >>
    /\ laterPass = FALSE

\* A call of _build_context_aware_prompt for position n of the deck
BuildPrompt(deck, n, is_title) ==
    /\ pc = "prompt"
    /\ prompt = NoPrompt
    /\ slides_data' = deck
    /\ i' = n
    /\ prompt' = _build_context_aware_prompt(deck[n].text, n, Len(deck), is_title)
    /\ UNCHANGED << SDK_VERSION, temperature, style, conversation_history,
                    progress_callback, pc, attempt, calls, callTemp, lastCall,
                    sleeps, outcome, writes, notified, laterPass >>

NextPrompt ==
    \E deck \in Decks(MaxLongSlides), is_title \in BOOLEAN :
        \E n \in 1..Len(deck) : BuildPrompt(deck, n, is_title)

SpecPrompt == InitPrompt /\ [][NextPrompt]_vars

TypeOK ==
    /\ pc \in { "idle", "slide", "attempt", "done", "raised", "prompt" }
    /\ i \in 0..(Max(MaxSlides, MaxLongSlides) + 1)
    /\ attempt \in 0..MaxAttempts

-----------------------------------------------------------------------------
(* Vocabulary of the properties *)

RECURSIVE SumSeq(_)
SumSeq(s) == IF s = << >> THEN 0 ELSE Head(s) + SumSeq(Tail(s))

InPass == pc \in { "slide", "attempt", "done" }

Positions == 1..Len(slides_data)

\* The trimmed text of slide j has fewer than 5 characters
TrimmedShort(j) == Len(strip(slides_data[j].text)) < 5

\* The step issues a generation call
CallStep == pc = "attempt" /\ calls' # calls

\* The response carries no text, or only whitespace
EmptyResult(r) ==
    \/ r.kind = "none"
    \/ r.kind = "text" /\ \A k \in 1..Len(r.text) : r.text[k] \in { " ", "\n", "\t" }

HasAuthToken(r) ==
    r.kind = "error" /\ \E k \in 1..Len(r.msg) : r.msg[k] \in { "403", "PERMISSION_DENIED" }

HasRateToken(r) ==
    r.kind = "error" /\ \E k \in 1..Len(r.msg) : r.msg[k] \in { "429", "RESOURCE_EXHAUSTED" }

\* Within a pass the calls of the slides already left do not change
PastSlidesFrozen ==
    pc \in { "slide", "attempt" } =>
        /\ i' >= i
        /\ \A j \in Positions : j < i => calls'[j] = calls[j]

-----------------------------------------------------------------------------
(* C1 *)

\* C1: when narrate_slides returns, every slide record has its narration
\* field set, whatever the deck and whatever the backend did.
C1_TotalCoverage ==
    pc = "done" => \A j \in Positions : HasNarration(slides_data[j])

\* A finished pass with a passed-through, a narrated and a fallen-back slide
C1_Witness ==
    /\ pc = "done"
    /\ \E j, k, l \in Positions :
          /\ outcome[j] = "passthrough"
          /\ outcome[k] = "success"
          /\ outcome[l] = "fallback"
          /\ HasNarration(slides_data[l])

-----------------------------------------------------------------------------
(* C2 *)

\* C2 as stated: after the pass, a slide whose trimmed text has fewer than 5
\* characters has a narration equal to its text including the surrounding
\* whitespace, received no generation call and has no context entry.
C2_PassthroughRawText ==
    pc = "done" =>
        \A j \in Positions :
            TrimmedShort(j) =>
                /\ HasNarration(slides_data[j])
                /\ slides_data[j].ai_narration = slides_data[j].text
                /\ calls[j] = 0
                /\ \A k \in 1..Len(conversation_history) :
                      conversation_history[k].slide_number # j

\* C2 amended: after the pass, a slide whose trimmed text has fewer than 5
\* characters has a narration equal to its trimmed text, received no generation
\* call and has no context entry.
C2_PassthroughTrimmedText ==
    pc = "done" =>
        \A j \in Positions :
            TrimmedShort(j) =>
                /\ HasNarration(slides_data[j])
                /\ slides_data[j].ai_narration = strip(slides_data[j].text)
                /\ calls[j] = 0
                /\ \A k \in 1..Len(conversation_history) :
                      conversation_history[k].slide_number # j

\* A finished pass with a trivial slide whose text carries surrounding
\* whitespace, next to a narrated slide
C2_Witness ==
    /\ pc = "done"
    /\ \E j, k \in Positions :
          /\ TrimmedShort(j)
          /\ slides_data[j].text # strip(slides_data[j].text)
          /\ outcome[j] = "passthrough"
          /\ outcome[k] = "success"

-----------------------------------------------------------------------------
(* C3 *)

-----------------------------------------------------------------------------
(* C4 *)

-----------------------------------------------------------------------------
(* C5 *)

\* C5 as stated: when the previous generation call raised an error whose
\* message contains 429 or RESOURCE_EXHAUSTED, at least 5 seconds of sleep lie
\* between it and the next generation call.
C5_BackoffOnRateToken ==
    [][ (CallStep /\ HasRateToken(lastCall.result)) => SumSeq(sleeps) >= 50 ]_vars

\* C5 amended: the same, for an error whose message contains 429 or
\* RESOURCE_EXHAUSTED and neither 403 nor PERMISSION_DENIED.
C5_BackoffOnRateLimit ==
    [][ (CallStep /\ HasRateToken(lastCall.result) /\ ~HasAuthToken(lastCall.result))
            => SumSeq(sleeps) >= 50 ]_vars

\* A second attempt about to be issued after a rate-limit error and its sleeps
C5_Witness ==
    /\ pc = "attempt"
    /\ attempt = 2
    /\ HasRateToken(lastCall.result)
    /\ ~HasAuthToken(lastCall.result)
    /\ sleeps = << 50, 8 >>

-----------------------------------------------------------------------------
(* C6 *)

\* The slides before position n that reached Success in this pass
SucceededBefore(n) == { j \in Positions : j < n /\ outcome[j] = "success" }

\* The (at most) two latest of them
LatestTwoSucceeded(n) ==
    { j \in SucceededBefore(n) :
        Cardinality({ k \in SucceededBefore(n) : k > j }) < 2 }

\* C6: the previous-context section of a body prompt references at most 2
\* slides: exactly the latest earlier slides of the pass that succeeded, in
\* slide order, each with a suffix of at most 150 characters of its narration.
C6_ContextBound ==
    (pc = "attempt" /\ prompt.template = "body") =>
        /\ Len(prompt.context) <= 2
        /\ { prompt.context[k].slide_number : k \in 1..Len(prompt.context) }
              = LatestTwoSucceeded(i)
        /\ Len(prompt.context) = Cardinality(LatestTwoSucceeded(i))
        /\ \A k \in 1..Len(prompt.context) :
              LET excerpt   == prompt.context[k].excerpt
                  narration == slides_data[prompt.context[k].slide_number].ai_narration
              IN  /\ Len(excerpt) <= 150
                  /\ Len(excerpt) <= Len(narration)
                  /\ excerpt = SubSeq(narration, Len(narration) - Len(excerpt) + 1,
                                      Len(narration))
                  /\ (k > 1 => prompt.context[k - 1].slide_number
                                   < prompt.context[k].slide_number)

\* A body prompt built when three earlier slides have succeeded, one of them
\* with a narration longer than 150 characters
C6_Witness ==
    /\ pc = "attempt"
    /\ prompt.template = "body"
    /\ Cardinality(SucceededBefore(i)) = 3
    /\ Len(prompt.context) = 2
    /\ \E k \in 1..2 :
          Len(slides_data[prompt.context[k].slide_number].ai_narration) > 150

-----------------------------------------------------------------------------
(* C7 *)

\* The context window holds exactly the succeeded slides of the running pass,
\* in ascending order, each with its narration
WindowMatchesPass ==
    /\ Len(conversation_history) = Cardinality({ j \in Positions : outcome[j] = "success" })
    /\ \A k \in 1..Len(conversation_history) :
          LET e == conversation_history[k]
          IN  /\ e.slide_number \in Positions
              /\ outcome[e.slide_number] = "success"
              /\ e.narration = slides_data[e.slide_number].ai_narration
              /\ e.text = strip(slides_data[e.slide_number].text)
              /\ (k > 1 => conversation_history[k - 1].slide_number < e.slide_number)

\* C7: at every point of every pass, also a later pass on the same instance,
\* the context window holds exactly one entry per slide of this pass that has
\* reached Success, in ascending slide order, and within a pass it only grows
\* by appending.
C7_ContextWindow ==
    [][ /\ pc' \in { "slide", "attempt", "done" } => WindowMatchesPass'
        /\ pc \in { "slide", "attempt" } =>
              /\ Len(conversation_history') >= Len(conversation_history)
              /\ SubSeq(conversation_history', 1, Len(conversation_history))
                    = conversation_history ]_vars

\* A later pass with two context entries around a slide that fell back
C7_Witness ==
    /\ laterPass
    /\ pc = "done"
    /\ Len(conversation_history) = 2
    /\ \E j \in Positions : outcome[j] = "fallback"

-----------------------------------------------------------------------------
(* C8 *)

\* C8: the template depends on the position alone: opener for slide 1 (also of
\* a one-slide deck), closer for the last slide of a longer deck, body
\* otherwise.
C8_TemplateByPosition ==
    (pc = "prompt" /\ prompt # NoPrompt) =>
        /\ prompt.template \in { "opener", "closer", "body" }
        /\ prompt.template = "opener" <=> i = 1
        /\ prompt.template = "closer" <=> (i = Len(slides_data) /\ Len(slides_data) > 1)
        /\ prompt.template = "body" <=> (i # 1 /\ i # Len(slides_data))

\* The prompt of the only slide of a one-slide deck
C8_Witness ==
    /\ pc = "prompt"
    /\ prompt # NoPrompt
    /\ Len(slides_data) = 1
    /\ i = 1
    /\ prompt.template = "opener"

-----------------------------------------------------------------------------
(* C9 *)

\* C9: no backend error leaves narrate_slides, and no slide is skipped after
\* a failure: every non-trivial slide the loop has passed received its first
\* generation call, and the pass ends only after the last slide.
C9_FailureConfined ==
    /\ pc # "raised"
    /\ InPass =>
          \A j \in Positions :
              (j < i /\ ~TrimmedShort(j)) => calls[j] >= 1
    /\ pc = "done" => i = Len(slides_data) + 1

\* A finished pass in which a slide fell back after a single call (an
\* authorization error) and a later slide was attempted all the same
C9_Witness ==
    /\ pc = "done"
    /\ \E j, k \in Positions :
          /\ j < k
          /\ outcome[j] = "fallback"
          /\ calls[j] = 1
          /\ calls[k] >= 1

-----------------------------------------------------------------------------
(* C10 *)

\* C10: every generation call is issued with the temperature of the style
\* configuration looked up for the generator's style key.
C10_StyleTemperature ==
    (InPass /\ \E j \in Positions : calls[j] > 0) =>
        callTemp = _get_style_config(style).temperature

-----------------------------------------------------------------------------
(* C11 *)

\* C11: the prompt of a non-trivial last slide of a deck of more than one
\* slide embeds the first 100 characters of the narration of the latest
\* earlier slide that succeeded, and no excerpt when none succeeded; a trivial
\* or fallen-back slide in between contributes nothing.
C11_CloserBridge ==
    (pc = "attempt" /\ i = Len(slides_data) /\ Len(slides_data) > 1) =>
        /\ prompt.template = "closer"
        /\ IF SucceededBefore(i) = { }
           THEN prompt.context = << >>
           ELSE LET last == CHOOSE j \in SucceededBefore(i) :
                                \A k \in SucceededBefore(i) : k <= j
                    narration == slides_data[last].ai_narration
                IN  /\ Len(prompt.context) = 1
                    /\ Len(prompt.context[1].excerpt) = (IF Len(narration) < 100
                                                        THEN Len(narration) ELSE 100)
                    /\ prompt.context[1].excerpt
                          = SubSeq(narration, 1, Len(prompt.context[1].excerpt))

\* A closer prompt whose excerpt is cut from a narration of more than 100
\* characters of a slide that is not the one just before the last, that one
\* having fallen back
C11_Witness ==
    /\ pc = "attempt"
    /\ Len(slides_data) = 3
    /\ i = 3
    /\ prompt.template = "closer"
    /\ outcome[1] = "success"
    /\ outcome[2] = "fallback"
    /\ Len(slides_data[1].ai_narration) > 100
    /\ Len(prompt.context) = 1
    /\ Len(prompt.context[1].excerpt) = 100

-----------------------------------------------------------------------------
(* C12 *)

\* C12: between any generation call of a pass and the next one, whatever the
\* outcome of the former, lies a pacing sleep of 0.8 seconds.
C12_UniformPacing ==
    [][ (CallStep /\ lastCall # NoCall) =>
            \E k \in 1..Len(sleeps) : sleeps[k] = 8 ]_vars

-----------------------------------------------------------------------------
(* C13 *)

Terminal(j) == outcome[j] \in { "success", "fallback", "passthrough" }

\* C13: within a pass a slide's narration is written once, at the step that
\* makes the slide terminal; a terminal slide gets no further call and keeps
\* its narration and its state; a non-empty response on attempt 1 stores the
\* trimmed response and ends the slide after that single call.
C13_TerminalFinal ==
    [][ /\ pc' \in { "slide", "attempt", "done" } =>
              \A j \in 1..Len(slides_data') :
                  /\ writes'[j] = (IF outcome'[j] = "pending" THEN 0 ELSE 1)
                  /\ HasNarration(slides_data'[j]) <=> outcome'[j] # "pending"
        /\ pc' = "done" => \A j \in 1..Len(slides_data') : outcome'[j] # "pending"
        /\ pc \in { "slide", "attempt" } =>
              \A j \in Positions :
                  Terminal(j) =>
                      /\ calls'[j] = calls[j]
                      /\ writes'[j] = writes[j]
                      /\ outcome'[j] = outcome[j]
                      /\ slides_data'[j] = slides_data[j]
        /\ ( /\ CallStep
             /\ attempt = 1
             /\ lastCall'.result.kind = "text"
             /\ \E k \in 1..Len(lastCall'.result.text) :
                   lastCall'.result.text[k] \notin { " ", "\n", "\t" } ) =>
              /\ slides_data'[i].ai_narration = strip(lastCall'.result.text)
              /\ outcome'[i] = "success"
              /\ calls'[i] = 1
              /\ pc' = "slide" /\ i' = i + 1 ]_vars

\* A finished pass whose first slide succeeded on its first attempt with a
\* response that had to be trimmed, and was written once, while a later slide
\* used both attempts
C13_Witness ==
    /\ pc = "done"
    /\ Len(slides_data) >= 2
    /\ outcome[1] = "success"
    /\ calls[1] = 1
    /\ writes[1] = 1
    /\ slides_data[1].ai_narration = << "o", "k" >>
    /\ \E j \in Positions : calls[j] = 2 /\ writes[j] = 1

-----------------------------------------------------------------------------
(* C14 *)

Notified(j) == \E k \in 1..Len(notified) : notified[k].i = j

\* C14: with a callback supplied, a notification carrying the slide's i/total
\* position precedes every generation attempt of a non-trivial slide, no
\* trivial slide is ever notified, every non-trivial slide of a finished pass
\* has been notified, and the notifications come in slide order.
C14_ProgressOrdering ==
    (InPass /\ progress_callback) =>
        /\ \A k \in 1..Len(notified) :
              /\ notified[k].i \in Positions
              /\ ~TrimmedShort(notified[k].i)
              /\ notified[k].total = Len(slides_data)
              /\ (k > 1 => notified[k - 1].i <= notified[k].i)
        /\ pc = "attempt" => Notified(i)
        /\ \A j \in Positions : calls[j] >= 1 => Notified(j)
        /\ pc = "done" => \A j \in Positions : ~TrimmedShort(j) => Notified(j)

\* A finished pass with a callback, over a trivial slide and two notified
\* slides, one of which used both attempts
C14_Witness ==
    /\ pc = "done"
    /\ progress_callback
    /\ Len(notified) = 2
    /\ \E j \in Positions : TrimmedShort(j) /\ ~Notified(j)
    /\ \E j \in Positions : calls[j] = 2 /\ Notified(j)

====
